---- MODULE Spec2Model ----
(***************************************************************************)
(* Transactional-outbox SMS pipeline of golang-sms-broadcast:              *)
(*   Intake (CreateBroadcast) -> store -> outbox publisher                 *)
(*   (PublishPendingMessages) -> RabbitMQ queue -> sender worker           *)
(*   (Consume / SendMessage) -> gateway -> DLR webhook (HandleDLR).        *)
(* Every store call, broker call and gateway call of the Go code is one    *)
(* atomic step; the processes interleave between those calls.              *)
(***************************************************************************)
EXTENDS Naturals, Sequences, FiniteSets, TLC

\* ---------------------------------------------------------------- bounds
MaxBroadcasts == 2      \* broadcasts accepted by Intake in one run
MaxRecipients == 2      \* recipients of one request
MaxMsgs == 2            \* Message rows in the store
NumPublishers == 2      \* outbox-publisher processes
NumWorkers == 1         \* sender-worker processes
MaxPids == 2            \* provider ids the gateway hands out in one run
MaxQueue == 2           \* deliveries the broker queue holds at once
CountCap == 2           \* the history counters saturate here
MaxFaults == 2          \* store errors, broker errors and process crashes in one run

\* BatchSize: the limit PublishPendingMessages passes to GetPendingMessages
\* (100 in cmd/outbox-publisher/main.go), scaled to the model.
BatchSize == 2

\* A batch size set by OUTBOX_BATCH_SIZE that is smaller than a broadcast.
SmallBatch == 1

\* InsertChunk: the rows of one INSERT statement of SaveMessages
\* (CreateInBatches(msgs, 100) in repository.go), scaled to the model.
InsertChunk == 1

\* Rate, Window: the limiter's rate and window (100 and one minute on the
\* broadcast API, 200 and one minute on the DLR webhook), scaled to the model; the
\* clock counts half windows.
Rate == 2
Window == 2

NumIPs == 1             \* client addresses
NumCallers == 2         \* requests inside the limiter at once
MaxRequests == 4        \* requests that reach the limiter in one run
MaxRateClock == 5       \* the clock readings of a run of the limiter are 0..MaxRateClock

BIds == 1..MaxBroadcasts
IPs == 1..NumIPs
Callers == 1..NumCallers
MsgIds == 1..MaxMsgs
Pids == 1..MaxPids
Publishers == 1..NumPublishers
Workers == 1..NumWorkers

\* ------------------------------------------------------- domain/message.go
StatusPending == "pending"
StatusQueued == "queued"
StatusSent == "sent"
StatusDelivered == "delivered"
StatusFailed == "failed"

\* The zero value of Message.ProviderID (Go's empty string).
NoPid == 0

\* domain.NewMessage at clock reading t: a pending row of broadcast b, no provider
\* id yet, CreatedAt = UpdatedAt = the reading.
NewMessage(b, t) ==
    [broadcast_id |-> b, status |-> StatusPending, provider_id |-> NoPid,
     created_at |-> t, updated_at |-> t]

VARIABLES
    broadcasts,   \* table broadcasts: the set of broadcast ids stored
    messages,     \* table messages: sequence of rows, index = message id (creation order)
    ipc,          \* Intake: "idle" | "saved" (between SaveBroadcast and SaveMessages)
    ireq,         \* Intake: the request in progress [bid, n]
    ppc,          \* publisher p: "idle" | "update" | "publish" | "compensate"
                  \* | "exited" (the outbox-publisher process has ended)
    batch,        \* publisher p: rows of this poll cycle still to hand off
    published,    \* publisher p: the counter "published" of the PublishPendingMessages
                  \* call in progress (0: no call in progress)
    pdone,        \* publisher p: its context is cancelled (SIGINT / SIGTERM received)
    pubRet,       \* publisher p: n, err of the latest PublishPendingMessages call that
                  \* was taken as one step (PubCycle)
    queue,        \* broker queue sms.send: sequence of ready deliveries (a message id,
                  \* or Malformed)
    inbox,        \* consumer w: deliveries the broker pushed on its channel that the
                  \* Consume loop has not read yet (unacked)
    nackDropped,  \* history: deliveries settled by Nack(false, false)
    wpc,          \* worker w: "idle" | "send" | "setpid" | "marksent" | "markfailed" | "decide"
                  \* | "exited" (the sender-worker process has ended)
    wmsg,         \* worker w: the unacked delivery it holds (0: none)
    wres,         \* worker w: SendResult.ProviderID of the current Send
    werr,         \* worker w: whether the handler returns an error
    wstoreErr,    \* worker w: a store update after the current Send has failed
    wstamp,       \* worker w: the time.Now() reading of the UPDATE it has built and
                  \* not yet sent to the store (NoStamp: none)
    wdone,        \* worker w: its context is cancelled (SIGINT / SIGTERM received)
    nextPid,      \* gateway: next provider id to hand out
    dlrInFlight,  \* gateway: provider ids whose simulateDLR goroutine has not posted yet
    dlrResp,      \* dlr-webhook: HTTP status of its latest answer (0: none yet)
    now,          \* the clock time.Now() reads
    faults,       \* environment: store errors, broker errors and crashes so far
    requested,    \* history: recipients submitted per broadcast id
    respQueued,   \* history: "queued" of the 201 response per broadcast id (0: no 201)
    createResp,   \* broadcast-api: HTTP status of its latest answer to POST /broadcasts
                  \* (0: none yet)
    sendCount,    \* history: provider.Send invocations per message
    pubCount,     \* history: successful broker publishes per message
    visitors,     \* RateLimiter.visitors: client IP -> its *Visitor (NoVisitor: no entry)
    visitorObj,   \* the Visitor objects allocated so far: [tokens, lastRefill]
    allowCall,    \* handler goroutine c inside allow: [pc, ip, visitor]; pc is "idle"
                  \* | "held" (it has the *Visitor and has not taken visitor.mu yet)
    tickerFired,  \* RateLimiter.cleanup: its ticker has fired
    rlLog         \* history: the answers of allow, [ip, at, ok]

vars == <<broadcasts, messages, ipc, ireq, ppc, batch, published, pdone, pubRet, queue, inbox, nackDropped, wpc, wmsg,
          wres, werr, wstoreErr, wstamp, wdone,
          nextPid, dlrInFlight, dlrResp, now, faults, requested, respQueued, createResp,
          sendCount, pubCount, visitors, visitorObj, allowCall, tickerFired, rlLog>>

storeVars == <<broadcasts, messages>>
intakeVars == <<ipc, ireq, requested, respQueued, createResp>>
pubVars == <<ppc, batch, published, pdone>>
workerVars == <<wpc, wmsg, wres, werr, wstoreErr, wstamp, wdone>>
gwVars == <<nextPid, dlrInFlight>>
consumeVars == <<inbox, nackDropped>>
rlVars == <<visitors, visitorObj, allowCall, tickerFired, rlLog>>

\* No entry in RateLimiter.visitors.
NoVisitor == 0

\* A handler goroutine that is not inside allow.
IdleCall == [pc |-> "idle", ip |-> 0, visitor |-> NoVisitor]

\* fiber's HTTP status codes the handlers answer with.
StatusCreated == 201
StatusNoContent == 204
StatusBadRequest == 400
StatusInternalServerError == 500

Bump(c) == IF c < CountCap THEN c + 1 ELSE c

\* The clock readings are 0..MaxClock.
MaxClock == 1

\* No reading taken.
NoStamp == MaxClock + 1

\* The environment's choice for one call: ok, or one more fault (an error returned
\* by the store or the broker, or a process killed).
Outcome(ok) ==
    /\ ok \/ faults < MaxFaults
    /\ faults' = IF ok THEN faults ELSE faults + 1

\* The outcome of a store call that carries the caller's context: with the
\* context cancelled the call returns context.Canceled and does nothing; else it
\* is the environment's choice.
CallOutcome(done, ok) ==
    IF done THEN ~ok /\ UNCHANGED faults ELSE Outcome(ok)

Init ==
    /\ broadcasts = {}
    /\ messages = << >>
    /\ ipc = "idle"
    /\ ireq = [bid |-> 0, n |-> 0]
    /\ ppc = [p \in Publishers |-> "idle"]
    /\ batch = [p \in Publishers |-> << >>]
    /\ published = [p \in Publishers |-> 0]
    /\ pdone = [p \in Publishers |-> FALSE]
    /\ pubRet = [p \in Publishers |-> [n |-> 0, err |-> FALSE]]
    /\ queue = << >>
    /\ inbox = [w \in Workers |-> << >>]
    /\ nackDropped = 0
    /\ wpc = [w \in Workers |-> "idle"]
    /\ wmsg = [w \in Workers |-> 0]
    /\ wres = [w \in Workers |-> NoPid]
    /\ werr = [w \in Workers |-> FALSE]
    /\ wstoreErr = [w \in Workers |-> FALSE]
    /\ wstamp = [w \in Workers |-> NoStamp]
    /\ wdone = [w \in Workers |-> FALSE]
    /\ nextPid = 1
    /\ dlrInFlight = {}
    /\ dlrResp = 0
    /\ now = 0
    /\ faults = 0
    /\ requested = [b \in BIds |-> 0]
    /\ respQueued = [b \in BIds |-> 0]
    /\ createResp = 0
    /\ sendCount = [m \in MsgIds |-> 0]
    /\ pubCount = [m \in MsgIds |-> 0]
    /\ visitors = [ip \in IPs |-> NoVisitor]
    /\ visitorObj = << >>
    /\ allowCall = [c \in Callers |-> IdleCall]
    /\ tickerFired = FALSE
    /\ rlLog = << >>

\* ------------------------------------------- adapters/db/postgres/repository.go

\* A faulty SaveMessages that loses the last row of the batch.
SaveMessagesLosesLast(rows, b, n) == rows \o [i \in 1..(n - 1) |-> NewMessage(b, now)]

\* Repository.SaveMessages: one INSERT of the whole batch.
SaveMessages(rows, b, n) == rows \o [i \in 1..n |-> NewMessage(b, now)]

\* The number of INSERT statements CreateInBatches issues for n rows.
NumChunks(n) == (n + InsertChunk - 1) \div InsertChunk

\* The rows the session sees after the INSERT statements 1..k of a batch of n
\* rows of broadcast b, each statement inserting up to InsertChunk rows.
InsertChunks(rows, b, n, k) ==
    rows \o [i \in 1..(IF k * InsertChunk < n THEN k * InsertChunk ELSE n) |->
                NewMessage(b, now)]

\* A faulty SaveMessages whose INSERT statements are not inside one
\* transaction (gorm.Config.SkipDefaultTransaction): the chunks inserted before
\* the failing statement stay.
SaveMessagesNoTx(rows, b, n, failAt) ==
    IF failAt = 0 \/ failAt > NumChunks(n)
    THEN [rows |-> InsertChunks(rows, b, n, NumChunks(n)), err |-> FALSE]
    ELSE [rows |-> InsertChunks(rows, b, n, failAt - 1), err |-> TRUE]

\* Repository.SaveMessages with its INSERT statements spelled out: one
\* transaction around the chunks of CreateInBatches (and around the row-by-row
\* INSERTs of the SQL variant). failAt = 0: every statement and the commit
\* succeed; failAt = k <= NumChunks(n): statement k fails; failAt =
\* NumChunks(n) + 1: the commit fails. A failure rolls the transaction back
\* and is returned.
SaveMessagesTx(rows, b, n, failAt) ==
    IF failAt = 0
    THEN [rows |-> InsertChunks(rows, b, n, NumChunks(n)), err |-> FALSE]
    ELSE [rows |-> rows, err |-> TRUE]

\* Repository.GetPendingMessages: WHERE status = 'pending' ORDER BY created_at LIMIT limit.
RECURSIVE PendingFrom(_, _, _)
PendingFrom(rows, i, limit) ==
    IF i > Len(rows) \/ limit = 0 THEN << >>
    ELSE IF rows[i].status = StatusPending
         THEN <<i>> \o PendingFrom(rows, i + 1, limit - 1)
         ELSE PendingFrom(rows, i + 1, limit)

\* A faulty GetPendingMessages without the WHERE clause: the oldest rows,
\* whatever their status.
GetOldestMessages(rows, limit) ==
    [i \in 1..(IF limit < Len(rows) THEN limit ELSE Len(rows)) |-> i]

\* A faulty GetPendingMessages that also returns the rows still queued:
\* WHERE status IN ('pending', 'queued').
RECURSIVE UnsentFrom(_, _, _)
UnsentFrom(rows, i, limit) ==
    IF i > Len(rows) \/ limit = 0 THEN << >>
    ELSE IF rows[i].status \in {StatusPending, StatusQueued}
         THEN <<i>> \o UnsentFrom(rows, i + 1, limit - 1)
         ELSE UnsentFrom(rows, i + 1, limit)

GetUnsentMessages(rows, limit) == UnsentFrom(rows, 1, limit)

\* The result of the query when rows with equal created_at come out in the
\* order they were inserted.
GetPendingMessages(rows, limit) == PendingFrom(rows, 1, limit)

\* Every result the store may give for the query of GetPendingMessages:
\* ORDER BY created_at ASC names no second sort key, so rows with equal
\* created_at come in any order, and LIMIT cuts after any of them.
QueryPending(rows, limit) ==
    LET pending == {i \in DOMAIN rows : rows[i].status = StatusPending}
        k == IF limit < Cardinality(pending) THEN limit ELSE Cardinality(pending)
    IN  {sel \in [1..k -> pending] :
            /\ \A i, j \in 1..k : i < j =>
                    /\ sel[i] # sel[j]
                    /\ rows[sel[i]].created_at <= rows[sel[j]].created_at
            /\ \A m \in pending :
                    (\A i \in 1..k : sel[i] # m)
                      => \A i \in 1..k : rows[sel[i]].created_at <= rows[m].created_at}

\* Repository.UpdateMessageStatus with time.Now() reading t:
\* UPDATE messages SET status, updated_at = t WHERE id = id.
UpdateMessageStatusAt(rows, id, st, t) ==
    [rows EXCEPT ![id].status = st, ![id].updated_at = t]

UpdateMessageStatus(rows, id, st) == UpdateMessageStatusAt(rows, id, st, now)

\* RowsAffected of an UPDATE ... WHERE provider_id = pid is not 0.
MatchesProviderID(rows, pid) == \E i \in DOMAIN rows : rows[i].provider_id = pid

\* A faulty UpdateMessageStatusByProviderID whose UPDATE is gated on the status
\* the receipt is expected to find: WHERE provider_id = pid AND status = 'sent'.
UpdateSentOnlyByProviderIDAt(rows, pid, st, t) ==
    [i \in DOMAIN rows |->
        IF rows[i].provider_id = pid /\ rows[i].status = StatusSent
        THEN [rows[i] EXCEPT !.status = st, !.updated_at = t]
        ELSE rows[i]]

\* A faulty UpdateMessageStatusByProviderID that takes a receipt for a row already
\* in the receipt's status as an error and marks the row failed.
UpdateRepeatFailsByProviderIDAt(rows, pid, st, t) ==
    [i \in DOMAIN rows |->
        IF rows[i].provider_id = pid
        THEN [rows[i] EXCEPT !.status = IF rows[i].status = st THEN StatusFailed ELSE st,
                             !.updated_at = t]
        ELSE rows[i]]

\* Repository.UpdateMessageStatusByProviderID with time.Now() reading t:
\* UPDATE messages SET status, updated_at = t WHERE provider_id = pid.
UpdateMessageStatusByProviderIDAt(rows, pid, st, t) ==
    [i \in DOMAIN rows |->
        IF rows[i].provider_id = pid
        THEN [rows[i] EXCEPT !.status = st, !.updated_at = t]
        ELSE rows[i]]

UpdateMessageStatusByProviderID(rows, pid, st) ==
    UpdateMessageStatusByProviderIDAt(rows, pid, st, now)

\* Repository.SetProviderID:
\* UPDATE messages SET provider_id, updated_at = time.Now() WHERE id = id.
SetProviderID(rows, id, pid) ==
    [rows EXCEPT ![id].provider_id = pid, ![id].updated_at = now]

\* ------------------------------------------------ app/service.go CreateBroadcast

\* CreateBroadcast up to and including repo.SaveBroadcast (its own commit).
\* ok = FALSE: the store rejects the insert, CreateBroadcast returns the error and
\* the HTTP handler answers 500.
IntakeSaveBroadcast(n, ok) ==
    /\ ipc = "idle"
    /\ Outcome(ok)
    /\ Cardinality(broadcasts) < MaxBroadcasts
    /\ Len(messages) + n <= MaxMsgs
    /\ LET b == Cardinality(broadcasts) + 1 IN
         IF ok
         THEN /\ broadcasts' = broadcasts \cup {b}
              /\ ipc' = "saved"
              /\ ireq' = [bid |-> b, n |-> n]
              /\ requested' = [requested EXCEPT ![b] = n]
              /\ UNCHANGED createResp
         ELSE /\ createResp' = StatusInternalServerError
              /\ UNCHANGED <<broadcasts, ipc, ireq, requested>>
    /\ UNCHANGED <<messages, respQueued, pubVars, queue, workerVars, gwVars,
                   sendCount, pubCount, dlrResp, now, pubRet, rlVars, consumeVars>>

\* createBroadcastRequest, the decoded body of POST /broadcasts: name and body
\* empty or not, n = len(recipients).
CreateRequests == [name : {"", "promo"}, body : {"", "hello"}, n : 0..MaxRecipients]

\* A faulty validation that lets an empty recipients list through.
ValidCreateNoRecipientCheck(req) == ~(req.name = "" \/ req.body = "")

\* Handler.CreateBroadcast's check:
\* req.Name == "" || req.Body == "" || len(req.Recipients) == 0 answers 400.
ValidCreate(req) == ~(req.name = "" \/ req.body = "" \/ req.n = 0)

\* Handler.CreateBroadcast, one POST /broadcasts, up to the return of
\* repo.SaveBroadcast: 400 for an invalid request, else the service call.
HandlerCreateBroadcast(req, ok) ==
    IF ValidCreate(req)
    THEN IntakeSaveBroadcast(req.n, ok)
    ELSE /\ ipc = "idle"
         /\ ok
         /\ Outcome(TRUE)
         /\ createResp' = StatusBadRequest
         /\ UNCHANGED <<storeVars, ipc, ireq, requested, respQueued, pubVars, queue,
                        workerVars, gwVars, sendCount, pubCount, dlrResp, now, pubRet, rlVars, consumeVars>>

\* CreateBroadcast from repo.SaveMessages to its return, and the HTTP handler's
\* answer: 201 with queued = len(req.Recipients) on success, 500 on error.
\* ok = FALSE: the store rejects the batch; nothing of it is persisted.
IntakeSaveMessages(ok) ==
    /\ ipc = "saved"
    /\ Outcome(ok)
    /\ messages' = IF ok THEN SaveMessages(messages, ireq.bid, ireq.n) ELSE messages
    /\ respQueued' = IF ok THEN [respQueued EXCEPT ![ireq.bid] = ireq.n] ELSE respQueued
    /\ createResp' = IF ok THEN StatusCreated ELSE StatusInternalServerError
    /\ ipc' = "idle"
    /\ ireq' = [bid |-> 0, n |-> 0]
    /\ UNCHANGED <<broadcasts, requested, pubVars, queue, workerVars, gwVars,
                   sendCount, pubCount, dlrResp, now, pubRet, rlVars, consumeVars>>

\* IntakeSaveMessages over the single statements of SaveMessages: any one of
\* them, or the commit, may fail (failAt).
IntakeSaveMessagesTx(failAt) ==
    /\ ipc = "saved"
    /\ failAt <= NumChunks(ireq.n) + 1
    /\ Outcome(failAt = 0)
    /\ LET r == SaveMessagesTx(messages, ireq.bid, ireq.n, failAt) IN
         /\ messages' = r.rows
         /\ respQueued' = IF r.err THEN respQueued
                          ELSE [respQueued EXCEPT ![ireq.bid] = ireq.n]
         /\ createResp' = IF r.err THEN StatusInternalServerError ELSE StatusCreated
    /\ ipc' = "idle"
    /\ ireq' = [bid |-> 0, n |-> 0]
    /\ UNCHANGED <<broadcasts, requested, pubVars, queue, workerVars, gwVars,
                   sendCount, pubCount, dlrResp, now, pubRet, rlVars, consumeVars>>

\* The broadcast-api process dies between the two store calls.
IntakeCrash ==
    /\ ipc = "saved"
    /\ Outcome(FALSE)
    /\ ipc' = "idle"
    /\ ireq' = [bid |-> 0, n |-> 0]
    /\ UNCHANGED <<storeVars, requested, respQueued, createResp, pubVars, queue,
                   workerVars, gwVars, sendCount, pubCount, dlrResp, now, pubRet, rlVars, consumeVars>>

\* ---------------------------------------- app/service.go PublishPendingMessages

\* The loop's continue / end with the counter at n: drop the row just handled, go
\* on with the next; after the last row PublishPendingMessages returns n, nil
\* and the call is over.
NextRow(p, n) ==
    /\ batch' = [batch EXCEPT ![p] = Tail(batch[p])]
    /\ ppc' = [ppc EXCEPT ![p] = IF Len(batch[p]) > 1 THEN "update" ELSE "idle"]
    /\ published' = [published EXCEPT ![p] = IF Len(batch[p]) > 1 THEN n ELSE 0]

\* Ticker fires: PublishPendingMessages(ctx, batchSize) calls GetPendingMessages.
\* ok = FALSE: the query fails, the cycle returns 0 and the error. No row:
\* the loop body does not run, the cycle returns 0, nil.
PubPollN(p, ok, batchSize) ==
    /\ ppc[p] = "idle"
    /\ CallOutcome(pdone[p], ok)
    /\ LET msgs == GetPendingMessages(messages, batchSize) IN
         IF ok /\ msgs # << >>
         THEN /\ batch' = [batch EXCEPT ![p] = msgs]
              /\ ppc' = [ppc EXCEPT ![p] = "update"]
              /\ published' = [published EXCEPT ![p] = 0]
         ELSE UNCHANGED <<ppc, batch, published>>
    /\ UNCHANGED <<storeVars, intakeVars, pdone, queue, workerVars, gwVars, sendCount,
                   pubCount, dlrResp, now, pubRet, rlVars, consumeVars>>

PubPoll(p, ok) == PubPollN(p, ok, BatchSize)

\* A faulty handoff that does not wait for the queued update: the loop goes on
\* to Publish while the row is still as selected.
PubMarkQueuedNotAwaited(p, ok) ==
    /\ ppc[p] = "update"
    /\ CallOutcome(pdone[p], ok)
    /\ IF ok
       THEN /\ ppc' = [ppc EXCEPT ![p] = "publish"]
            /\ UNCHANGED <<batch, published>>
       ELSE NextRow(p, published[p])
    /\ UNCHANGED <<storeVars, intakeVars, pdone, queue, workerVars, gwVars, sendCount,
                   pubCount, dlrResp, now, pubRet, rlVars, consumeVars>>

\* UpdateMessageStatus(msg.ID, StatusQueued); on error log and continue.
PubMarkQueued(p, ok) ==
    /\ ppc[p] = "update"
    /\ CallOutcome(pdone[p], ok)
    /\ LET id == Head(batch[p]) IN
         IF ok
         THEN /\ messages' = UpdateMessageStatus(messages, id, StatusQueued)
              /\ ppc' = [ppc EXCEPT ![p] = "publish"]
              /\ UNCHANGED <<batch, published>>
         ELSE /\ UNCHANGED messages
              /\ NextRow(p, published[p])
    /\ UNCHANGED <<broadcasts, intakeVars, pdone, queue, workerVars, gwVars, sendCount,
                   pubCount, dlrResp, now, pubRet, rlVars, consumeVars>>

\* publisher.Publish(msg) (amqp's PublishWithContext does not look at the
\* context); on error go to the compensating update, else published++.
PubPublish(p, ok) ==
    /\ ppc[p] = "publish"
    /\ Outcome(ok)
    /\ LET id == Head(batch[p]) IN
         IF ok
         THEN /\ Len(queue) < MaxQueue
              /\ queue' = Append(queue, id)
              /\ pubCount' = [pubCount EXCEPT ![id] = Bump(@)]
              /\ NextRow(p, published[p] + 1)
         ELSE /\ ppc' = [ppc EXCEPT ![p] = "compensate"]
              /\ UNCHANGED <<batch, published, queue, pubCount>>
    /\ UNCHANGED <<storeVars, intakeVars, pdone, workerVars, gwVars, sendCount, dlrResp,
                   now, pubRet, rlVars, consumeVars>>

\* _ = UpdateMessageStatus(msg.ID, StatusPending); its error is dropped.
PubCompensate(p, ok) ==
    /\ ppc[p] = "compensate"
    /\ CallOutcome(pdone[p], ok)
    /\ messages' = IF ok THEN UpdateMessageStatus(messages, Head(batch[p]), StatusPending)
                   ELSE messages
    /\ NextRow(p, published[p])
    /\ UNCHANGED <<broadcasts, intakeVars, pdone, queue, workerVars, gwVars, sendCount,
                   pubCount, dlrResp, now, pubRet, rlVars, consumeVars>>

\* What the environment does to one row of a cycle: both calls succeed; the
\* queued update fails; the Publish fails and the compensating update succeeds;
\* the Publish and the compensating update both fail.
RowOutcomes == {"ok", "updateErr", "publishErr", "compensateErr"}

\* The store and broker errors in a sequence of row outcomes.
RECURSIVE ErrorsIn(_)
ErrorsIn(outs) ==
    IF outs = << >> THEN 0
    ELSE (CASE Head(outs) = "ok" -> 0
            [] Head(outs) = "compensateErr" -> 2
            [] OTHER -> 1) + ErrorsIn(Tail(outs))

\* A faulty loop that returns at the first row whose queued update or Publish
\* fails, instead of going on with the next row.
RECURSIVE PublishLoopBreaks(_, _, _)
PublishLoopBreaks(st, msgs, outs) ==
    IF msgs = << >> \/ Head(outs) # "ok" THEN st
    ELSE PublishLoopBreaks(
            [st EXCEPT !.rows = UpdateMessageStatus(st.rows, Head(msgs), StatusQueued),
                       !.queue = Append(st.queue, Head(msgs)),
                       !.pubs[Head(msgs)] = Bump(@),
                       !.n = st.n + 1],
            Tail(msgs), Tail(outs))

\* A faulty loop that counts a row once its queued update succeeded, whether
\* or not the Publish that follows does.
RECURSIVE PublishLoopCountsQueued(_, _, _)
PublishLoopCountsQueued(st, msgs, outs) ==
    IF msgs = << >> THEN st
    ELSE LET id == Head(msgs)
             queued == UpdateMessageStatus(st.rows, id, StatusQueued)
             next ==
               CASE Head(outs) = "updateErr" -> st
                 [] Head(outs) = "ok" ->
                      [st EXCEPT !.rows = queued, !.queue = Append(st.queue, id),
                                 !.pubs[id] = Bump(@), !.n = st.n + 1]
                 [] Head(outs) = "publishErr" ->
                      [st EXCEPT !.rows = UpdateMessageStatus(queued, id, StatusPending),
                                 !.n = st.n + 1]
                 [] OTHER -> [st EXCEPT !.rows = queued, !.n = st.n + 1]
         IN  PublishLoopCountsQueued(next, Tail(msgs), Tail(outs))

\* The loop `for _, msg := range msgs` of PublishPendingMessages with nothing
\* else running in between: st holds the store rows, the broker queue, the
\* publishes per message and the counter `published` (n); outs[i] is what
\* happens to msgs[i].
RECURSIVE PublishLoop(_, _, _)
PublishLoop(st, msgs, outs) ==
    IF msgs = << >> THEN st
    ELSE LET id == Head(msgs)
             queued == UpdateMessageStatus(st.rows, id, StatusQueued)
             next ==
               CASE Head(outs) = "updateErr" -> st
                 [] Head(outs) = "ok" ->
                      [st EXCEPT !.rows = queued, !.queue = Append(st.queue, id),
                                 !.pubs[id] = Bump(@), !.n = st.n + 1]
                 [] Head(outs) = "publishErr" ->
                      [st EXCEPT !.rows = UpdateMessageStatus(queued, id, StatusPending)]
                 [] OTHER -> [st EXCEPT !.rows = queued]
         IN  PublishLoop(next, Tail(msgs), Tail(outs))

\* PublishPendingMessages as one call over the query result msgs: the state it
\* leaves and what it returns (n, err). queryOk = FALSE: GetPendingMessages
\* failed and the call returns 0 and the error.
PublishPendingMessages(rows, q, pubs, msgs, queryOk, outs) ==
    IF queryOk
    THEN PublishLoop([rows |-> rows, queue |-> q, pubs |-> pubs, n |-> 0, err |-> FALSE],
                     msgs, outs)
    ELSE [rows |-> rows, queue |-> q, pubs |-> pubs, n |-> 0, err |-> TRUE]

\* One tick of the outbox-publisher taken as one step: the whole
\* PublishPendingMessages call, whose query returned msgs (nothing when it
\* failed), with main receiving n, err.
PubCycleOn(p, msgs, queryOk, outs) ==
    /\ ppc[p] = "idle"
    /\ ~pdone[p]
    /\ LET errs == ErrorsIn(outs) + (IF queryOk THEN 0 ELSE 1)
           r == PublishPendingMessages(messages, queue, pubCount, msgs, queryOk, outs)
       IN  /\ Len(outs) = Len(msgs)
           /\ faults + errs <= MaxFaults
           /\ Len(r.queue) <= MaxQueue
           /\ faults' = faults + errs
           /\ messages' = r.rows
           /\ queue' = r.queue
           /\ pubCount' = r.pubs
           /\ pubRet' = [pubRet EXCEPT ![p] = [n |-> r.n, err |-> r.err]]
    /\ UNCHANGED <<broadcasts, intakeVars, pubVars, workerVars, gwVars, sendCount, dlrResp,
                   now, consumeVars, rlVars>>

\* The tick with the query answered in insertion order.
PubCycle(p, batchSize, queryOk, outs) ==
    PubCycleOn(p, IF queryOk THEN GetPendingMessages(messages, batchSize) ELSE << >>,
               queryOk, outs)

\* SIGINT / SIGTERM reaches the outbox-publisher: signal.NotifyContext cancels
\* the context that run passes to every poll cycle.
PubShutdown(p) ==
    /\ ppc[p] # "exited"
    /\ ~pdone[p]
    /\ Outcome(TRUE)
    /\ pdone' = [pdone EXCEPT ![p] = TRUE]
    /\ UNCHANGED <<storeVars, intakeVars, ppc, batch, published, queue, workerVars, gwVars,
                   sendCount, pubCount, dlrResp, now, pubRet, rlVars, consumeVars>>

\* The polling loop's select takes case <-ctx.Done(): run returns nil and the
\* process ends.
PubExit(p) ==
    /\ ppc[p] = "idle"
    /\ pdone[p]
    /\ Outcome(TRUE)
    /\ ppc' = [ppc EXCEPT ![p] = "exited"]
    /\ UNCHANGED <<storeVars, intakeVars, batch, published, pdone, queue, workerVars,
                   gwVars, sendCount, pubCount, dlrResp, now, pubRet, rlVars, consumeVars>>

\* The outbox-publisher process is killed inside a cycle and restarted.
PubCrash(p) ==
    /\ ppc[p] # "idle"
    /\ Outcome(FALSE)
    /\ ppc' = [ppc EXCEPT ![p] = "idle"]
    /\ batch' = [batch EXCEPT ![p] = << >>]
    /\ published' = [published EXCEPT ![p] = 0]
    /\ pdone' = [pdone EXCEPT ![p] = FALSE]
    /\ UNCHANGED <<storeVars, intakeVars, queue, workerVars, gwVars, sendCount, pubCount,
                   dlrResp, now, pubRet, rlVars, consumeVars>>

\* ------------------------------------ adapters/queue/rabbitmq/consumer.go Consume

\* ch.Qos(1, 0, false): the prefetch count of a consumer's channel.
Prefetch == 1

\* A delivery whose body json.Unmarshal rejects.
Malformed == MaxMsgs + 1

\* Deliveries consumer w holds unacked: those on its channel and the one its
\* handler is working on.
Unacked(w) == Len(inbox[w]) + (IF wmsg[w] # 0 THEN 1 ELSE 0)

\* A channel without the Qos call: the broker pushes without limit.
MayDeliverNoQos(w) == TRUE

\* The broker pushes a delivery to a consumer only below its prefetch count.
MayDeliver(w) == Unacked(w) < Prefetch

\* Some other client publishes a body that is not a JSON Message to sms.send.
ForeignPublish ==
    /\ Outcome(TRUE)
    /\ Len(queue) < MaxQueue
    /\ queue' = Append(queue, Malformed)
    /\ UNCHANGED <<storeVars, intakeVars, pubVars, workerVars, gwVars, dlrResp, now, pubRet, rlVars,
                   consumeVars, sendCount, pubCount>>

\* The broker pushes the head of the queue on consumer w's deliveries channel.
Deliver(w) ==
    /\ Outcome(TRUE)
    /\ queue # << >>
    /\ MayDeliver(w)
    /\ inbox' = [inbox EXCEPT ![w] = Append(@, Head(queue))]
    /\ queue' = Tail(queue)
    /\ UNCHANGED <<storeVars, intakeVars, pubVars, workerVars, gwVars, dlrResp, now, pubRet, rlVars,
                   nackDropped, sendCount, pubCount>>

\* Consume: d := <-deliveries and json.Unmarshal(d.Body). A malformed body is
\* settled by d.Nack(false, false) (the queue has no dead-letter exchange: the
\* broker drops it) and the loop continues; otherwise the handler starts.
Take(w) ==
    /\ wpc[w] = "idle"
    /\ Outcome(TRUE)
    /\ inbox[w] # << >>
    /\ inbox' = [inbox EXCEPT ![w] = Tail(@)]
    /\ IF Head(inbox[w]) = Malformed
       THEN /\ nackDropped' = Bump(nackDropped)
            /\ UNCHANGED <<wpc, wmsg>>
       ELSE /\ wmsg' = [wmsg EXCEPT ![w] = Head(inbox[w])]
            /\ wpc' = [wpc EXCEPT ![w] = "send"]
            /\ UNCHANGED nackDropped
    /\ UNCHANGED <<storeVars, intakeVars, pubVars, queue, wres, werr, wstoreErr, wstamp,
                   wdone, gwVars, dlrResp, now, pubRet, rlVars, sendCount, pubCount>>

\* The connection to the broker is lost while Consume waits for a delivery: the
\* deliveries channel is closed, the receive yields !ok, Consume returns
\* "deliveries channel closed", run returns the error and main calls os.Exit(1).
\* The broker puts the deliveries the consumer held back into the queue.
ChannelClosed(w) ==
    /\ wpc[w] = "idle"
    /\ Outcome(FALSE)
    /\ wpc' = [wpc EXCEPT ![w] = "exited"]
    /\ queue' = inbox[w] \o queue
    /\ inbox' = [inbox EXCEPT ![w] = << >>]
    /\ UNCHANGED <<storeVars, intakeVars, pubVars, wmsg, wres, werr, wstoreErr, wstamp,
                   wdone, gwVars, dlrResp, now, pubRet, rlVars, nackDropped, sendCount, pubCount>>

\* Deliver and Take in one step, for a well-formed delivery: the broker hands the
\* head of the queue to an idle consumer that holds nothing (prefetch 1); the
\* delivery stays unacked while the handler runs.
Receive(w) ==
    /\ wpc[w] = "idle"
    /\ Outcome(TRUE)
    /\ inbox[w] = << >>
    /\ queue # << >>
    /\ Head(queue) \in MsgIds
    /\ wmsg' = [wmsg EXCEPT ![w] = Head(queue)]
    /\ queue' = Tail(queue)
    /\ wpc' = [wpc EXCEPT ![w] = "send"]
    /\ UNCHANGED <<storeVars, intakeVars, pubVars, wres, werr, wstoreErr, wstamp, wdone,
                   gwVars, sendCount, pubCount, dlrResp, now, pubRet, rlVars, consumeVars>>

\* ------------------------------------------------- app/service.go SendMessage

\* The shapes of the string a gateway returns as provider_id: the canonical
\* (lower-case, hyphenated) text of a UUID, its upper-case text, or a text that
\* is not a UUID (as "X").
IdForms == {"canonical", "upper", "opaque"}

\* The provider_id string of shape form for the n-th id a gateway issues, as
\* the value the store holds: the canonical text of UUID n is n, the other
\* texts are values of their own.
IdText(form, n) ==
    CASE form = "canonical" -> n
      [] form = "upper" -> MaxPids + n
      [] OTHER -> MaxPids + MaxPids + n

\* The shape and the number of a stored provider_id string.
TextForm(s) ==
    IF s <= MaxPids THEN "canonical"
    ELSE IF s <= MaxPids + MaxPids THEN "upper" ELSE "opaque"

TextId(s) ==
    IF s <= MaxPids THEN s
    ELSE IF s <= MaxPids + MaxPids THEN s - MaxPids ELSE s - MaxPids - MaxPids

\* provider.Send. ok: the gateway accepts and returns a fresh provider id, a
\* string of shape form. ~ok: the gateway returns an error, or the request was
\* not made because the context is cancelled (http.NewRequestWithContext).
\* dlr: the gateway is the mock-sms-provider, whose /send handler starts
\* simulateDLR for the id it returns.
SendAs(w, ok, dlr, form) ==
    /\ wpc[w] = "send"
    /\ wdone[w] => ~ok
    /\ Outcome(TRUE)
    /\ sendCount' = [sendCount EXCEPT ![wmsg[w]] = Bump(@)]
    /\ IF ok
       THEN /\ nextPid <= MaxPids
            /\ wres' = [wres EXCEPT ![w] = IdText(form, nextPid)]
            /\ nextPid' = nextPid + 1
            /\ dlrInFlight' = IF dlr THEN dlrInFlight \cup {nextPid} ELSE dlrInFlight
            /\ wpc' = [wpc EXCEPT ![w] = "setpid"]
       ELSE /\ wpc' = [wpc EXCEPT ![w] = "markfailed"]
            /\ UNCHANGED <<wres, gwVars>>
    /\ UNCHANGED <<storeVars, intakeVars, pubVars, queue, wmsg, werr, wstoreErr, wstamp,
                   wdone, pubCount, dlrResp, now, pubRet, rlVars, consumeVars>>

\* Send to a gateway that returns canonical UUID texts, as the mock-sms-provider
\* does (uuid.New().String()).
Send(w, ok, dlr) == SendAs(w, ok, dlr, "canonical")

\* Send failed: _ = UpdateMessageStatus(msg.ID, StatusFailed); return the error.
MarkFailed(w, ok) ==
    /\ wpc[w] = "markfailed"
    /\ CallOutcome(wdone[w], ok)
    /\ messages' = IF ok THEN UpdateMessageStatus(messages, wmsg[w], StatusFailed)
                   ELSE messages
    /\ werr' = [werr EXCEPT ![w] = TRUE]
    /\ wpc' = [wpc EXCEPT ![w] = "decide"]
    /\ UNCHANGED <<broadcasts, intakeVars, pubVars, queue, wmsg, wres, wstoreErr, wstamp,
                   wdone, gwVars, sendCount, pubCount, dlrResp, now, pubRet, rlVars, consumeVars>>

\* Send succeeded: SetProviderID(msg.ID, result.ProviderID); an error is only logged.
StoreProviderID(w, ok) ==
    /\ wpc[w] = "setpid"
    /\ CallOutcome(wdone[w], ok)
    /\ messages' = IF ok THEN SetProviderID(messages, wmsg[w], wres[w]) ELSE messages
    /\ wstoreErr' = [wstoreErr EXCEPT ![w] = ~ok]
    /\ wpc' = [wpc EXCEPT ![w] = "marksent"]
    /\ UNCHANGED <<broadcasts, intakeVars, pubVars, queue, wmsg, wres, werr, wstamp, wdone,
                   gwVars, sendCount, pubCount, dlrResp, now, pubRet, rlVars, consumeVars>>

\* UpdateMessageStatus(msg.ID, StatusSent) whose UPDATE carries the reading t;
\* an error is returned to Consume.
MarkSentAt(w, ok, t) ==
    /\ wpc[w] = "marksent"
    /\ CallOutcome(wdone[w], ok)
    /\ messages' = IF ok THEN UpdateMessageStatusAt(messages, wmsg[w], StatusSent, t)
                   ELSE messages
    /\ werr' = [werr EXCEPT ![w] = ~ok]
    /\ wstoreErr' = [wstoreErr EXCEPT ![w] = @ \/ ~ok]
    /\ wstamp' = [wstamp EXCEPT ![w] = NoStamp]
    /\ wpc' = [wpc EXCEPT ![w] = "decide"]
    /\ UNCHANGED <<broadcasts, intakeVars, pubVars, queue, wmsg, wres, wdone, gwVars,
                   sendCount, pubCount, dlrResp, now, pubRet, rlVars, consumeVars>>

\* The sent update with nothing happening between time.Now() and the store
\* executing the UPDATE.
MarkSent(w, ok) ==
    /\ wstamp[w] = NoStamp
    /\ MarkSentAt(w, ok, now)

\* The sent update in two steps. First UpdateMessageStatus builds the statement:
\* time.Now().UTC() is evaluated in the worker process.
MarkSentReadClock(w) ==
    /\ wpc[w] = "marksent"
    /\ wstamp[w] = NoStamp
    /\ Outcome(TRUE)
    /\ wstamp' = [wstamp EXCEPT ![w] = now]
    /\ UNCHANGED <<storeVars, intakeVars, pubVars, queue, wpc, wmsg, wres, werr, wstoreErr,
                   wdone, gwVars, sendCount, pubCount, dlrResp, now, pubRet, rlVars, consumeVars>>

\* Then the store executes the UPDATE with the reading taken earlier.
MarkSentCommit(w, ok) ==
    /\ wstamp[w] # NoStamp
    /\ MarkSentAt(w, ok, wstamp[w])

\* d.Nack(false, true): RabbitMQ puts a requeued delivery back at its original
\* place in the queue, which for the delivery a consumer holds is the head.
Requeue(q, id) == <<id>> \o q

\* A faulty Consume that acks whatever the handler returned.
AckAlways(w) ==
    /\ wpc[w] = "decide"
    /\ Outcome(TRUE)
    /\ wpc' = [wpc EXCEPT ![w] = "idle"]
    /\ wmsg' = [wmsg EXCEPT ![w] = 0]
    /\ wres' = [wres EXCEPT ![w] = NoPid]
    /\ werr' = [werr EXCEPT ![w] = FALSE]
    /\ wstoreErr' = [wstoreErr EXCEPT ![w] = FALSE]
    /\ UNCHANGED <<storeVars, intakeVars, pubVars, queue, wstamp, wdone, gwVars, sendCount,
                   pubCount, dlrResp, now, pubRet, rlVars, consumeVars>>

\* Consume after the handler returned: error -> d.Nack(false, true); nil -> d.Ack(false).
AckOrNack(w) ==
    /\ wpc[w] = "decide"
    /\ Outcome(TRUE)
    /\ queue' = IF werr[w] THEN Requeue(queue, wmsg[w]) ELSE queue
    /\ wpc' = [wpc EXCEPT ![w] = "idle"]
    /\ wmsg' = [wmsg EXCEPT ![w] = 0]
    /\ wres' = [wres EXCEPT ![w] = NoPid]
    /\ werr' = [werr EXCEPT ![w] = FALSE]
    /\ wstoreErr' = [wstoreErr EXCEPT ![w] = FALSE]
    /\ UNCHANGED <<storeVars, intakeVars, pubVars, wstamp, wdone, gwVars, sendCount, pubCount,
                   dlrResp, now, pubRet, rlVars, consumeVars>>

\* SIGINT / SIGTERM reaches the sender-worker: signal.NotifyContext cancels the
\* context that Consume and the handler it is running hold.
WorkerShutdown(w) ==
    /\ wpc[w] # "exited"
    /\ ~wdone[w]
    /\ Outcome(TRUE)
    /\ wdone' = [wdone EXCEPT ![w] = TRUE]
    /\ UNCHANGED <<storeVars, intakeVars, pubVars, queue, wpc, wmsg, wres, werr, wstoreErr,
                   wstamp, gwVars, sendCount, pubCount, dlrResp, now, pubRet, rlVars, consumeVars>>

\* Consume's select takes case <-ctx.Done() and returns ctx.Err(); run returns
\* nil, its deferred consumer.Close() closes the channel, and the broker puts the
\* deliveries still on it back into the queue.
ConsumeReturn(w) ==
    /\ wpc[w] = "idle"
    /\ wdone[w]
    /\ Outcome(TRUE)
    /\ wpc' = [wpc EXCEPT ![w] = "exited"]
    /\ queue' = inbox[w] \o queue
    /\ inbox' = [inbox EXCEPT ![w] = << >>]
    /\ UNCHANGED <<storeVars, intakeVars, pubVars, wmsg, wres, werr, wstoreErr, wstamp,
                   wdone, gwVars, dlrResp, now, pubRet, rlVars, nackDropped, sendCount, pubCount>>

\* The sender-worker process dies holding an unacked delivery: the broker requeues it.
WorkerCrash(w) ==
    /\ wpc[w] # "idle"
    /\ Outcome(FALSE)
    /\ queue' = Requeue(inbox[w] \o queue, wmsg[w])
    /\ inbox' = [inbox EXCEPT ![w] = << >>]
    /\ wpc' = [wpc EXCEPT ![w] = "idle"]
    /\ wmsg' = [wmsg EXCEPT ![w] = 0]
    /\ wres' = [wres EXCEPT ![w] = NoPid]
    /\ werr' = [werr EXCEPT ![w] = FALSE]
    /\ wstoreErr' = [wstoreErr EXCEPT ![w] = FALSE]
    /\ wstamp' = [wstamp EXCEPT ![w] = NoStamp]
    /\ wdone' = [wdone EXCEPT ![w] = FALSE]
    /\ UNCHANGED <<storeVars, intakeVars, pubVars, gwVars, sendCount, pubCount, dlrResp, now, pubRet, rlVars,
                   nackDropped>>

\* --------------------------------------------------- app/service.go HandleDLR

TerminalStatuses == {StatusDelivered, StatusFailed}

\* BroadcastService.HandleDLR with time.Now() reading t: the store after
\* UpdateMessageStatusByProviderID(dlr.ProviderID.String(), dlr.Status).
HandleDLRAt(rows, pid, st, t) == UpdateMessageStatusByProviderIDAt(rows, pid, st, t)

HandleDLR(rows, pid, st) == HandleDLRAt(rows, pid, st, now)

\* BroadcastService.HandleDLR returns an error: the UPDATE failed (~ok), or
\* RowsAffected == 0 ("message not found for provider_id").
HandleDLRErr(rows, pid, ok) == ~ok \/ ~MatchesProviderID(rows, pid)

\* ------------------------------------------- transport/http.go Handler.HandleDLR


\* The provider_id string of a request: empty, not a UUID, the canonical
\* (lower-case, hyphenated) text of UUID id, or its upper-case text.
DlrIdStrings ==
    [form : {"empty", "malformed"}, id : {NoPid}]
        \cup [form : {"canonical", "upper"}, id : Pids]

\* The status string of a request: empty, one of the five tags, or anything else.
DlrStatusStrings ==
    {"", StatusPending, StatusQueued, StatusSent, StatusDelivered, StatusFailed, "bogus"}

\* dlrRequest, the decoded body of POST /dlr.
DlrRequests == [provider_id : DlrIdStrings, status : DlrStatusStrings]

\* uuid.Parse accepts both cases of the hyphenated text and yields the UUID.
ParseUUIDOk(s) == s.form \in {"canonical", "upper"}
ParseUUID(s) == s.id

\* UUID.String(): the canonical text, which is how the store holds the ids the
\* gateway issued (provider_id n is the canonical text of UUID n).
UUIDString(u) == u

\* statusFromString: domain.Status(s), any string.
statusFromString(s) == s

\* Handler.HandleDLR, one POST /dlr. ok = FALSE: the store's UPDATE fails.
HandlerHandleDLR(req, ok) ==
    /\ Outcome(ok)
    /\ IF \/ req.provider_id.form = "empty"
          \/ req.status = ""
          \/ ~ParseUUIDOk(req.provider_id)
       THEN /\ ok
            /\ dlrResp' = StatusBadRequest
            /\ UNCHANGED messages
       ELSE LET pid == UUIDString(ParseUUID(req.provider_id)) IN
              IF HandleDLRErr(messages, pid, ok)
              THEN /\ dlrResp' = StatusInternalServerError
                   /\ UNCHANGED messages
              ELSE /\ dlrResp' = StatusNoContent
                   /\ messages' = HandleDLR(messages, pid, statusFromString(req.status))
    /\ UNCHANGED <<broadcasts, intakeVars, pubVars, queue, workerVars, sendCount,
                   pubCount, now, pubRet, rlVars, consumeVars>>

\* The request the mock-sms-provider and well-behaved gateways send: the id as
\* issued, a status tag.
Receipt(pid, st) == [provider_id |-> [form |-> "canonical", id |-> pid], status |-> st]

\* cmd/dlr-webhook (mock-sms-provider) simulateDLR: one POST /dlr with status
\* "delivered" for the provider id, some time after /send; no retry.
\* ok = FALSE: the store fails and the webhook answers 500.
SimulateDLR(pid, ok) ==
    /\ pid \in dlrInFlight
    /\ dlrInFlight' = dlrInFlight \ {pid}
    /\ HandlerHandleDLR(Receipt(pid, StatusDelivered), ok)
    /\ UNCHANGED nextPid

\* POST /dlr from a gateway for an id it has issued, with either terminal status
\* (a failure receipt, or a receipt sent again).
PostDLR(pid, st) ==
    /\ pid < nextPid
    /\ HandlerHandleDLR(Receipt(pid, st), TRUE)
    /\ UNCHANGED gwVars

\* The gateway posts a receipt for message m carrying exactly the provider_id
\* string it returned from Send, which is the string the worker stored on the row.
GatewayDLR(m, st) ==
    /\ m \in DOMAIN messages
    /\ messages[m].provider_id # NoPid
    /\ HandlerHandleDLR([provider_id |-> [form |-> TextForm(messages[m].provider_id),
                                          id |-> TextId(messages[m].provider_id)],
                         status |-> st], TRUE)
    /\ UNCHANGED gwVars

\* POST /dlr with any body, from anyone who reaches the webhook.
PostAnyDLR(req, ok) ==
    /\ HandlerHandleDLR(req, ok)
    /\ UNCHANGED gwVars

\* ------------------------------------------------------------------- the clock

\* Time passes: a later time.Now() reads a larger value.
Tick ==
    /\ now < MaxClock
    /\ now' = now + 1
    /\ UNCHANGED <<storeVars, intakeVars, pubVars, queue, workerVars, gwVars, dlrResp,
                   faults, sendCount, pubCount, consumeVars, pubRet, rlVars>>

\* ------------------------------------------ middleware/security.go RateLimiter

\* &Visitor{tokens: rl.rate, lastRefill: time.Now()}
NewVisitor(t) == [tokens |-> Rate, lastRefill |-> t]

Min(a, b) == IF a < b THEN a ELSE b

\* allow, "Refill tokens based on elapsed time": the visitor v at the reading t.
\* tokensToAdd is the truncated float64 product rate * (elapsed / window), which
\* is the integer quotient for the values of the model.
Refill(v, t) ==
    LET elapsed == t - v.lastRefill
        tokensToAdd == (Rate * elapsed) \div Window
    IN  IF elapsed >= Window
        THEN [tokens |-> Rate, lastRefill |-> t]
        ELSE [tokens |-> Min(v.tokens + tokensToAdd, Rate),
              lastRefill |-> IF tokensToAdd > 0 THEN t ELSE v.lastRefill]

\* allow, under rl.mu: look the visitor of ip up, create it if there is none.
AllowLookup(c, ip) ==
    /\ allowCall[c].pc = "idle"
    /\ Len(rlLog) + Cardinality({d \in Callers : allowCall[d].pc = "held"}) < MaxRequests
    /\ IF visitors[ip] = NoVisitor
       THEN /\ visitorObj' = Append(visitorObj, NewVisitor(now))
            /\ visitors' = [visitors EXCEPT ![ip] = Len(visitorObj) + 1]
       ELSE UNCHANGED <<visitors, visitorObj>>
    /\ allowCall' = [allowCall EXCEPT ![c] = [pc |-> "held", ip |-> ip, visitor |-> visitors'[ip]]]
    /\ UNCHANGED <<storeVars, intakeVars, pubVars, queue, workerVars, gwVars, dlrResp, now,
                   faults, sendCount, pubCount, consumeVars, pubRet, tickerFired, rlLog>>

\* allow, under visitor.mu: refill, then take a token if there is one.
AllowDecide(c) ==
    /\ allowCall[c].pc = "held"
    /\ LET id == allowCall[c].visitor
           v == Refill(visitorObj[id], now)
           ok == v.tokens > 0
       IN  /\ visitorObj' = [visitorObj EXCEPT ![id] =
                                [v EXCEPT !.tokens = IF ok THEN v.tokens - 1 ELSE v.tokens]]
           /\ rlLog' = Append(rlLog, [ip |-> allowCall[c].ip, at |-> now, ok |-> ok])
    /\ allowCall' = [allowCall EXCEPT ![c] = IdleCall]
    /\ UNCHANGED <<storeVars, intakeVars, pubVars, queue, workerVars, gwVars, dlrResp, now,
                   faults, sendCount, pubCount, consumeVars, pubRet, visitors, tickerFired>>

\* cleanup, one firing of its ticker, under rl.mu: the entries whose visitor was
\* last refilled more than two windows ago are deleted. The ticker's period, five
\* minutes, is longer than a run of the limiter, so it fires once, at any time.
Cleanup ==
    /\ ~tickerFired
    /\ tickerFired' = TRUE
    /\ visitors' = [ip \in IPs |->
                       IF /\ visitors[ip] # NoVisitor
                          /\ now - visitorObj[visitors[ip]].lastRefill > Window * 2
                       THEN NoVisitor ELSE visitors[ip]]
    /\ UNCHANGED <<storeVars, intakeVars, pubVars, queue, workerVars, gwVars, dlrResp, now,
                   faults, sendCount, pubCount, consumeVars, pubRet, visitorObj, allowCall,
                   rlLog>>

\* Time passes during a run of the limiter.
RateTick ==
    /\ now < MaxRateClock
    /\ now' = now + 1
    /\ UNCHANGED <<storeVars, intakeVars, pubVars, queue, workerVars, gwVars, dlrResp,
                   faults, sendCount, pubCount, consumeVars, pubRet, rlVars>>

\* ------------------------------------------------------------ specifications

\* Every process and every outcome of every store, broker and gateway call (at most
\* MaxFaults errors of the store and the broker); the gateway posts receipts for the
\* ids it issued at any time, any number of times. No process is killed.
Next ==
    \/ \E n \in 1..MaxRecipients, ok \in BOOLEAN : IntakeSaveBroadcast(n, ok)
    \/ \E ok \in BOOLEAN : IntakeSaveMessages(ok)
    \/ \E p \in Publishers, ok \in BOOLEAN : PubPoll(p, ok)
    \/ \E p \in Publishers, ok \in BOOLEAN : PubMarkQueued(p, ok)
    \/ \E p \in Publishers, ok \in BOOLEAN : PubPublish(p, ok)
    \/ \E p \in Publishers, ok \in BOOLEAN : PubCompensate(p, ok)
    \/ \E w \in Workers : Receive(w)
    \/ \E w \in Workers, ok \in BOOLEAN : Send(w, ok, FALSE)
    \/ \E w \in Workers, ok \in BOOLEAN : MarkFailed(w, ok)
    \/ \E w \in Workers, ok \in BOOLEAN : StoreProviderID(w, ok)
    \/ \E w \in Workers, ok \in BOOLEAN : MarkSent(w, ok)
    \/ \E w \in Workers : AckOrNack(w)
    \/ \E pid \in Pids, st \in TerminalStatuses : PostDLR(pid, st)

Spec == Init /\ [][Next]_vars

\* Spec, and any process may be killed at any point (a kill counts as a fault).
NextFault ==
    \/ Next
    \/ IntakeCrash
    \/ \E p \in Publishers : PubCrash(p)
    \/ \E w \in Workers : WorkerCrash(w)

FaultSpec == Init /\ [][NextFault]_vars

\* One outbox-publisher and the sender-workers over a store and a broker that never
\* fail, as started by start-all.sh. The three specifications below differ in the
\* gateway and in whether the publisher may be killed.
Publisher1 == 1

PipelineStep(gatewayAccepts) ==
    \/ \E n \in 1..MaxRecipients : IntakeSaveBroadcast(n, TRUE)
    \/ IntakeSaveMessages(TRUE)
    \/ PubPoll(Publisher1, TRUE)
    \/ PubMarkQueued(Publisher1, TRUE)
    \/ PubPublish(Publisher1, TRUE)
    \/ \E w \in Workers : Receive(w)
    \/ \E w \in Workers : Send(w, gatewayAccepts, gatewayAccepts)
    \/ \E w \in Workers : AckOrNack(w)

PipelineFairness(gatewayAccepts) ==
    /\ WF_vars(IntakeSaveMessages(TRUE))
    /\ WF_vars(PubPoll(Publisher1, TRUE))
    /\ WF_vars(PubMarkQueued(Publisher1, TRUE))
    /\ WF_vars(PubPublish(Publisher1, TRUE))
    /\ \A w \in Workers :
         /\ WF_vars(Receive(w))
         /\ WF_vars(Send(w, gatewayAccepts, gatewayAccepts))
         /\ WF_vars(MarkFailed(w, TRUE))
         /\ WF_vars(StoreProviderID(w, TRUE))
         /\ WF_vars(MarkSent(w, TRUE))
         /\ WF_vars(AckOrNack(w))
    /\ \A pid \in Pids : WF_vars(SimulateDLR(pid, TRUE))

\* The gateway is the mock-sms-provider: it accepts every Send and posts one
\* "delivered" receipt for the id it returned.
NextHealthy ==
    \/ PipelineStep(TRUE)
    \/ \E w \in Workers : StoreProviderID(w, TRUE)
    \/ \E w \in Workers : MarkSent(w, TRUE)
    \/ \E pid \in Pids : SimulateDLR(pid, TRUE)

HealthySpec == Init /\ [][NextHealthy]_vars /\ PipelineFairness(TRUE)

\* The gateway rejects every Send.
NextReject ==
    \/ PipelineStep(FALSE)
    \/ \E w \in Workers : MarkFailed(w, TRUE)

RejectSpec == Init /\ [][NextReject]_vars /\ PipelineFairness(FALSE)

\* The healthy pipeline, whose publisher process may be killed at any point of a
\* cycle (at most MaxFaults times) and is restarted.
NextCrash ==
    \/ NextHealthy
    \/ PubCrash(Publisher1)

CrashSpec == Init /\ [][NextCrash]_vars /\ PipelineFairness(TRUE)

\* One publisher and the workers over a store and a broker that do not fail for
\* them, a gateway that accepts every Send, and a webhook that anyone can post
\* any body to, any number of times; the store may fail on the UPDATE of a receipt.
NextDlr ==
    \/ \E n \in 1..MaxRecipients : IntakeSaveBroadcast(n, TRUE)
    \/ IntakeSaveMessages(TRUE)
    \/ PubPoll(Publisher1, TRUE)
    \/ PubMarkQueued(Publisher1, TRUE)
    \/ PubPublish(Publisher1, TRUE)
    \/ \E w \in Workers : Receive(w)
    \/ \E w \in Workers : Send(w, TRUE, FALSE)
    \/ \E w \in Workers : StoreProviderID(w, TRUE)
    \/ \E w \in Workers : MarkSent(w, TRUE)
    \/ \E w \in Workers : AckOrNack(w)
    \/ \E req \in DlrRequests : PostAnyDLR(req, TRUE)
    \/ \E pid \in Pids, st \in TerminalStatuses : PostAnyDLR(Receipt(pid, st), FALSE)

DlrSpec == Init /\ [][NextDlr]_vars

\* One publisher and the workers over a store and a broker that do not fail, with
\* a running clock, and a gateway that accepts every Send and posts receipts for
\* the ids it issued at any time, any number of times.
NextClock ==
    \/ \E n \in 1..MaxRecipients : IntakeSaveBroadcast(n, TRUE)
    \/ IntakeSaveMessages(TRUE)
    \/ PubPoll(Publisher1, TRUE)
    \/ PubMarkQueued(Publisher1, TRUE)
    \/ PubPublish(Publisher1, TRUE)
    \/ \E w \in Workers : Receive(w)
    \/ \E w \in Workers : Send(w, TRUE, FALSE)
    \/ \E w \in Workers : StoreProviderID(w, TRUE)
    \/ \E w \in Workers : MarkSent(w, TRUE)
    \/ \E w \in Workers : AckOrNack(w)
    \/ Tick
    \/ \E pid \in Pids, st \in TerminalStatuses : PostDLR(pid, st)

ClockSpec == Init /\ [][NextClock]_vars

\* One publisher and the workers behind the broker's per-consumer channel, with
\* other clients publishing malformed bodies to the queue; the gateway may reject
\* a Send, which makes the handler return an error.
NextConsume ==
    \/ \E n \in 1..MaxRecipients : IntakeSaveBroadcast(n, TRUE)
    \/ IntakeSaveMessages(TRUE)
    \/ PubPoll(Publisher1, TRUE)
    \/ PubMarkQueued(Publisher1, TRUE)
    \/ PubPublish(Publisher1, TRUE)
    \/ ForeignPublish
    \/ \E w \in Workers : Deliver(w)
    \/ \E w \in Workers : Take(w)
    \/ \E w \in Workers, ok \in BOOLEAN : Send(w, ok, FALSE)
    \/ \E w \in Workers : MarkFailed(w, TRUE)
    \/ \E w \in Workers : StoreProviderID(w, TRUE)
    \/ \E w \in Workers : MarkSent(w, TRUE)
    \/ \E w \in Workers : AckOrNack(w)

ConsumeSpec == Init /\ [][NextConsume]_vars

\* The healthy pipeline (the gateway is the mock-sms-provider) whose publisher
\* polls with a batch size smaller than the largest broadcast, so that one
\* broadcast takes several poll cycles.
NextBatch ==
    \/ \E n \in 1..MaxRecipients : IntakeSaveBroadcast(n, TRUE)
    \/ IntakeSaveMessages(TRUE)
    \/ PubPollN(Publisher1, TRUE, SmallBatch)
    \/ PubMarkQueued(Publisher1, TRUE)
    \/ PubPublish(Publisher1, TRUE)
    \/ \E w \in Workers : Receive(w)
    \/ \E w \in Workers : Send(w, TRUE, TRUE)
    \/ \E w \in Workers : StoreProviderID(w, TRUE)
    \/ \E w \in Workers : MarkSent(w, TRUE)
    \/ \E w \in Workers : AckOrNack(w)
    \/ \E pid \in Pids : SimulateDLR(pid, TRUE)

\* The ticker keeps firing and every call returns.
BatchFairness ==
    /\ WF_vars(IntakeSaveMessages(TRUE))
    /\ WF_vars(PubPollN(Publisher1, TRUE, SmallBatch))
    /\ WF_vars(PubMarkQueued(Publisher1, TRUE))
    /\ WF_vars(PubPublish(Publisher1, TRUE))
    /\ \A w \in Workers :
         /\ WF_vars(Receive(w))
         /\ WF_vars(Send(w, TRUE, TRUE))
         /\ WF_vars(StoreProviderID(w, TRUE))
         /\ WF_vars(MarkSent(w, TRUE))
         /\ WF_vars(AckOrNack(w))
    /\ \A pid \in Pids : WF_vars(SimulateDLR(pid, TRUE))

BatchSpec == Init /\ [][NextBatch]_vars /\ BatchFairness

\* ClockSpec, where the worker's sent update is not atomic with its clock
\* reading: other writers may commit between the two.
NextStamp ==
    \/ \E n \in 1..MaxRecipients : IntakeSaveBroadcast(n, TRUE)
    \/ IntakeSaveMessages(TRUE)
    \/ PubPoll(Publisher1, TRUE)
    \/ PubMarkQueued(Publisher1, TRUE)
    \/ PubPublish(Publisher1, TRUE)
    \/ \E w \in Workers : Receive(w)
    \/ \E w \in Workers : Send(w, TRUE, FALSE)
    \/ \E w \in Workers : StoreProviderID(w, TRUE)
    \/ \E w \in Workers : MarkSentReadClock(w)
    \/ \E w \in Workers : MarkSentCommit(w, TRUE)
    \/ \E w \in Workers : AckOrNack(w)
    \/ Tick
    \/ \E pid \in Pids, st \in TerminalStatuses : PostDLR(pid, st)

StampSpec == Init /\ [][NextStamp]_vars

\* ConsumeSpec with runtime errors of every kind: the broker may refuse a
\* publish, the store may fail the worker's updates, the gateway may reject a
\* Send, and the connection to the broker may be lost.
NextConn ==
    \/ \E n \in 1..MaxRecipients : IntakeSaveBroadcast(n, TRUE)
    \/ IntakeSaveMessages(TRUE)
    \/ PubPoll(Publisher1, TRUE)
    \/ PubMarkQueued(Publisher1, TRUE)
    \/ \E ok \in BOOLEAN : PubPublish(Publisher1, ok)
    \/ PubCompensate(Publisher1, TRUE)
    \/ \E w \in Workers : Deliver(w)
    \/ \E w \in Workers : Take(w)
    \/ \E w \in Workers, ok \in BOOLEAN : Send(w, ok, FALSE)
    \/ \E w \in Workers : MarkFailed(w, TRUE)
    \/ \E w \in Workers : StoreProviderID(w, TRUE)
    \/ \E w \in Workers, ok \in BOOLEAN : MarkSent(w, ok)
    \/ \E w \in Workers : AckOrNack(w)
    \/ \E w \in Workers : ChannelClosed(w)

ConnSpec == Init /\ [][NextConn]_vars

\* One publisher and the workers over a store and a gateway that do not fail by
\* themselves and a broker that may refuse a publish; the shutdown signal may
\* reach the publisher and each worker at any point. A store call or a Send
\* made with a cancelled context fails.
NextShutdown ==
    \/ \E n \in 1..MaxRecipients : IntakeSaveBroadcast(n, TRUE)
    \/ IntakeSaveMessages(TRUE)
    \/ PubPoll(Publisher1, ~pdone[Publisher1])
    \/ PubMarkQueued(Publisher1, ~pdone[Publisher1])
    \/ \E ok \in BOOLEAN : PubPublish(Publisher1, ok)
    \/ PubCompensate(Publisher1, ~pdone[Publisher1])
    \/ PubShutdown(Publisher1)
    \/ PubExit(Publisher1)
    \/ \E w \in Workers : Receive(w)
    \/ \E w \in Workers : Send(w, ~wdone[w], FALSE)
    \/ \E w \in Workers : MarkFailed(w, ~wdone[w])
    \/ \E w \in Workers : StoreProviderID(w, ~wdone[w])
    \/ \E w \in Workers : MarkSent(w, ~wdone[w])
    \/ \E w \in Workers : AckOrNack(w)
    \/ \E w \in Workers : WorkerShutdown(w)
    \/ \E w \in Workers : ConsumeReturn(w)

ShutdownSpec == Init /\ [][NextShutdown]_vars

\* The broadcast-api behind POST /broadcasts with any request body, over a store
\* that may fail, and one publisher handing the created rows to the broker.
NextIntake ==
    \/ \E req \in CreateRequests, ok \in BOOLEAN : HandlerCreateBroadcast(req, ok)
    \/ \E ok \in BOOLEAN : IntakeSaveMessages(ok)
    \/ PubPoll(Publisher1, TRUE)
    \/ PubMarkQueued(Publisher1, TRUE)
    \/ PubPublish(Publisher1, TRUE)

IntakeSpec == Init /\ [][NextIntake]_vars

\* One publisher and the workers over a store and a broker that do not fail,
\* and a gateway that accepts every Send, returns ids of any shape, and posts
\* receipts carrying the ids it returned.
NextGateway ==
    \/ \E n \in 1..MaxRecipients : IntakeSaveBroadcast(n, TRUE)
    \/ IntakeSaveMessages(TRUE)
    \/ PubPoll(Publisher1, TRUE)
    \/ PubMarkQueued(Publisher1, TRUE)
    \/ PubPublish(Publisher1, TRUE)
    \/ \E w \in Workers : Receive(w)
    \/ \E w \in Workers, form \in IdForms : SendAs(w, TRUE, FALSE, form)
    \/ \E w \in Workers : StoreProviderID(w, TRUE)
    \/ \E w \in Workers : MarkSent(w, TRUE)
    \/ \E w \in Workers : AckOrNack(w)
    \/ \E m \in MsgIds, st \in TerminalStatuses : GatewayDLR(m, st)

GatewaySpec == Init /\ [][NextGateway]_vars

\* The broadcast-api over a store that may fail any single statement of
\* SaveMessages or its commit, and one publisher handing the created rows on.
NextSave ==
    \/ \E n \in 1..MaxRecipients : IntakeSaveBroadcast(n, TRUE)
    \/ \E failAt \in 0..(MaxRecipients + 1) : IntakeSaveMessagesTx(failAt)
    \/ PubPoll(Publisher1, TRUE)
    \/ PubMarkQueued(Publisher1, TRUE)
    \/ PubPublish(Publisher1, TRUE)
    \/ \E w \in Workers : Receive(w)
    \/ \E w \in Workers : Send(w, TRUE, FALSE)
    \/ \E w \in Workers : StoreProviderID(w, TRUE)
    \/ \E w \in Workers : MarkSent(w, TRUE)
    \/ \E w \in Workers : AckOrNack(w)

SaveSpec == Init /\ [][NextSave]_vars

\* The outcomes the environment may choose for the rows of one cycle.
CycleOutcomes == UNION {[1..k -> RowOutcomes] : k \in 0..BatchSize}

\* The batch sizes the publisher is run with: the default, and a value of
\* OUTBOX_BATCH_SIZE smaller than a broadcast.
BatchSizes == {SmallBatch, BatchSize}

\* One publisher whose poll cycles are taken whole, over a store and a broker
\* that may fail any call of a cycle; between the cycles broadcasts are created
\* and the workers send what was published.
NextCycle ==
    \/ \E n \in 1..MaxRecipients : IntakeSaveBroadcast(n, TRUE)
    \/ IntakeSaveMessages(TRUE)
    \/ \E b \in BatchSizes, queryOk \in BOOLEAN, outs \in CycleOutcomes :
          PubCycle(Publisher1, b, queryOk, outs)
    \/ \E w \in Workers : Receive(w)
    \/ \E w \in Workers : Send(w, TRUE, FALSE)
    \/ \E w \in Workers : StoreProviderID(w, TRUE)
    \/ \E w \in Workers : MarkSent(w, TRUE)
    \/ \E w \in Workers : AckOrNack(w)

CycleSpec == Init /\ [][NextCycle]_vars

\* Every call of the cycle succeeds for every row.
AllOk(msgs) == [i \in DOMAIN msgs |-> "ok"]

\* One publisher whose poll cycles are taken whole, over a store and a broker
\* that do not fail, with a running clock; the store answers the query of a
\* cycle with any of the results the query allows.
NextOrder ==
    \/ \E n \in 1..MaxRecipients : IntakeSaveBroadcast(n, TRUE)
    \/ IntakeSaveMessages(TRUE)
    \/ Tick
    \/ \E b \in BatchSizes : \E msgs \in QueryPending(messages, b) :
          PubCycleOn(Publisher1, msgs, TRUE, AllOk(msgs))
    \/ \E w \in Workers : Receive(w)
    \/ \E w \in Workers : Send(w, TRUE, FALSE)
    \/ \E w \in Workers : StoreProviderID(w, TRUE)
    \/ \E w \in Workers : MarkSent(w, TRUE)
    \/ \E w \in Workers : AckOrNack(w)

OrderSpec == Init /\ [][NextOrder]_vars

\* The rate limiter of one HTTP server: requests of the clients reach allow at any
\* time, NumCallers of them at once, and the cleanup task runs beside them.
NextRate ==
    \/ \E c \in Callers, ip \in IPs : AllowLookup(c, ip)
    \/ \E c \in Callers : AllowDecide(c)
    \/ Cleanup
    \/ RateTick

RateSpec == Init /\ [][NextRate]_vars

\* ------------------------------------------------------------------ claims

Rows == DOMAIN messages
RowsOf(b) == {m \in Rows : messages[m].broadcast_id = b}

\* C1: in every reachable state a Broadcast row exists if and only if all the
\* Message rows of its request exist: no Broadcast without its Messages, no
\* Message without its Broadcast.
C1_BroadcastAndMessagesAtomic ==
    /\ \A b \in broadcasts : Cardinality(RowsOf(b)) = requested[b]
    /\ \A m \in Rows : messages[m].broadcast_id \in broadcasts

\* The edges of the status graph.
StatusEdges == {
    <<StatusPending, StatusQueued>>, <<StatusQueued, StatusSent>>,
    <<StatusSent, StatusDelivered>>, <<StatusSent, StatusFailed>>,
    <<StatusQueued, StatusFailed>>, <<StatusQueued, StatusPending>> }

\* C2: every change of the status of a Message row is an edge of the status graph.
C2_StatusFollowsGraph ==
    [][\A m \in Rows :
          messages'[m].status # messages[m].status
            => <<messages[m].status, messages'[m].status>> \in StatusEdges]_vars

\* C3: a row whose status is delivered or failed keeps that status in every step.
C3_TerminalIsFinal ==
    [][\A m \in Rows :
          messages[m].status \in TerminalStatuses
            => messages'[m].status = messages[m].status]_vars

\* C4: provider.Send is invoked at most once for every Message.
C4_SendAtMostOnce == \A m \in MsgIds : sendCount[m] <= 1

\* C5: at most one broker Publish succeeds for every Message.
C5_PublishAtMostOnce == \A m \in MsgIds : pubCount[m] <= 1

\* C6: every Message that is queued eventually leaves queued, also when the
\* publisher is killed between its queued update and its broker publish.
C6_QueuedIsLeft ==
    \A m \in MsgIds :
        (m \in Rows /\ messages[m].status = StatusQueued)
            ~> (m \in Rows /\ messages[m].status # StatusQueued)

\* C7: with a gateway that accepts every Send and posts a delivered receipt, every
\* Message created eventually has status delivered and keeps it.
C7_EventuallyDelivered ==
    \A m \in MsgIds :
        [](m \in Rows => <>[](m \in Rows /\ messages[m].status = StatusDelivered))

\* C8: with a gateway that rejects every Send, every Message created eventually
\* has status failed and keeps it.
C8_EventuallyFailed ==
    \A m \in MsgIds :
        [](m \in Rows => <>[](m \in Rows /\ messages[m].status = StatusFailed))

\* C9: when Consume settles a delivery whose Send returned an error, the row is
\* failed and the delivery is acked: it is not put back into the queue.
C9_GatewayErrorIsAcked ==
    [][\A w \in Workers :
          (wpc[w] = "decide" /\ wres[w] = NoPid /\ wpc'[w] = "idle")
            => queue' = queue]_vars

\* C10: once the provider_id of a row is non-empty, no step changes it.
C10_ProviderIdWrittenOnce ==
    [][\A m \in Rows :
          messages[m].provider_id # NoPid
            => messages'[m].provider_id = messages[m].provider_id]_vars

\* C11: after a step, every broadcast id that CreateBroadcast has answered with 201
\* has exactly as many Message rows as recipients were submitted, the answer's
\* "queued" is that number, and every row a step creates is created pending.
C11_CreatedRowsMatchRecipients ==
    [][/\ \A b \in BIds :
            respQueued'[b] > 0
              => /\ Cardinality(RowsOf(b))' = requested'[b]
                 /\ respQueued'[b] = requested'[b]
       /\ \A m \in Rows' \ Rows : messages'[m].status = StatusPending]_vars

\* C11 happens: a 201 was answered for MaxRecipients recipients, the rows are
\* there, and one of them has since been delivered.
C11_Witness ==
    \E b \in BIds :
        /\ respQueued[b] = MaxRecipients
        /\ Cardinality(RowsOf(b)) = MaxRecipients
        /\ \E m \in RowsOf(b) : messages[m].status = StatusDelivered

\* C12: when CreateBroadcast returns an error (no 201 is answered for the call),
\* the store holds neither the Broadcast row of the call nor a Message row of it.
C12_FailedCreateLeavesNothing ==
    [][(ipc = "saved" /\ ipc' = "idle" /\ respQueued' = respQueued)
          => /\ ireq.bid \notin broadcasts'
             /\ \A m \in Rows' : messages'[m].broadcast_id # ireq.bid]_vars

\* C13: whenever no publisher cycle is in progress, every row whose status is
\* queued has been published to the broker at least once (no process is killed;
\* single store and broker calls may fail).
C13_QueuedWasPublished ==
    (\A p \in Publishers : ppc[p] = "idle")
        => \A m \in Rows : messages[m].status = StatusQueued => pubCount[m] >= 1

\* C14: a POST /dlr whose status is not delivered or failed is rejected and
\* changes no Message row.
C14_NonTerminalDlrRejected ==
    [][\A req \in DlrRequests :
          (req.status \notin TerminalStatuses /\ PostAnyDLR(req, TRUE))
            => (messages' = messages /\ dlrResp' # StatusNoContent)]_vars

\* The store is as applying the receipt (pid, st) left it: a row holds pid, and
\* every row that holds it has status st, written at one clock reading.
AsAppliedOnce(pid, st) ==
    /\ \E m \in Rows : messages[m].provider_id = pid
    /\ \E t \in 0..now :
         \A m \in Rows :
            messages[m].provider_id = pid
              => (messages[m].status = st /\ messages[m].updated_at = t)

C17_UnknownIdIsNotFound ==
    [][\A req \in DlrRequests :
          (/\ ParseUUIDOk(req.provider_id)
           /\ req.status # ""
           /\ ~MatchesProviderID(messages, UUIDString(ParseUUID(req.provider_id)))
           /\ PostAnyDLR(req, TRUE))
            => /\ messages' = messages
               /\ broadcasts' = broadcasts
               /\ dlrResp' # StatusInternalServerError]_vars

\* C18: a delivery for which a store update failed after its Send succeeded
\* (SetProviderID or the sent update) is settled by a nack with requeue.
C18_StoreErrorIsRequeued ==
    [][\A w \in Workers :
          (wpc[w] = "decide" /\ wstoreErr[w] /\ wpc'[w] = "idle")
            => queue' = Requeue(queue, wmsg[w])]_vars

\* The malformed deliveries ready in the queue.
MalformedInQueue == {i \in DOMAIN queue : queue[i] = Malformed}

\* C19: every delivery Consume reads is settled once, by its outcome: a malformed
\* body by a nack without requeue, with no handler run and no return to the
\* queue; a handler error by a nack with requeue; a handler success by an ack.
\* A delivery a handler works on is settled only when the handler has returned.
C19_OneDecisionPerOutcome ==
    [][/\ \A w \in Workers :
            /\ (/\ inbox[w] # << >>
                /\ Head(inbox[w]) = Malformed
                /\ Len(inbox'[w]) < Len(inbox[w]))
                  => /\ nackDropped' = Bump(nackDropped)
                     /\ inbox'[w] = Tail(inbox[w])
                     /\ queue' = queue
                     /\ wpc'[w] = "idle" /\ wmsg'[w] = 0
                     /\ sendCount' = sendCount
            /\ (wpc[w] = "decide" /\ wpc'[w] = "idle")
                  => /\ queue' = IF werr[w] THEN Requeue(queue, wmsg[w]) ELSE queue
                     /\ nackDropped' = nackDropped
                     /\ wmsg'[w] = 0
            /\ (wmsg[w] # 0 /\ wmsg'[w] # wmsg[w]) => wpc[w] = "decide"
       /\ Cardinality(MalformedInQueue') > Cardinality(MalformedInQueue)
            => ForeignPublish]_vars

\* C19 happens: a malformed delivery was dropped, a delivery was requeued after a
\* handler error and sent again, and a delivery was acked after its row was sent.
C19_Witness ==
    /\ nackDropped >= 1
    /\ \E m \in Rows : sendCount[m] >= 2
    /\ \E m \in Rows :
         /\ messages[m].status = StatusSent
         /\ \A i \in DOMAIN queue : queue[i] # m
         /\ \A w \in Workers : wmsg[w] # m /\ \A i \in DOMAIN inbox[w] : inbox[w][i] # m

\* C20: a consumer holds at most one unacked delivery, and none waits on its
\* channel while its handler works on one.
C20_OneUnackedPerWorker ==
    \A w \in Workers :
        /\ Unacked(w) <= 1
        /\ inbox[w] # << >> => wpc[w] = "idle"

\* C20 happens: a handler is working on a delivery while another delivery is
\* ready in the queue and is not pushed to the worker.
C20_Witness ==
    \E w \in Workers :
        /\ wpc[w] \in {"send", "setpid", "marksent"}
        /\ Unacked(w) = 1
        /\ \E i \in DOMAIN queue : queue[i] \in MsgIds

\* C21: a POST /broadcasts with an empty name, an empty body or no recipients is
\* answered 400 and leaves the store as it is: no Broadcast row, no Message row,
\* no change of a row; the service is not called.
C21_InvalidCreateRejected ==
    [][\A req \in CreateRequests, ok \in BOOLEAN :
          ((req.name = "" \/ req.body = "" \/ req.n = 0) /\ HandlerCreateBroadcast(req, ok))
            => /\ createResp' = StatusBadRequest
               /\ broadcasts' = broadcasts
               /\ messages' = messages
               /\ ipc' = "idle"]_vars

\* C21 happens: the latest request was answered 400 while the store holds rows
\* of an earlier broadcast, one of them already queued.
C21_Witness ==
    /\ createResp = StatusBadRequest
    /\ broadcasts # {}
    /\ \E m \in Rows : messages[m].status = StatusQueued

PendingRows(rows) == {i \in DOMAIN rows : rows[i].status = StatusPending}

Ceil(n, b) == (n + b - 1) \div b

\* The store after one poll cycle over a store and a broker that do not fail:
\* every selected row is queued.
AfterCycle(rows, sel) ==
    [i \in DOMAIN rows |->
        IF \E k \in DOMAIN sel : sel[k] = i
        THEN [rows[i] EXCEPT !.status = StatusQueued]
        ELSE rows[i]]

\* The number of poll cycles of one publisher, with nothing else writing, until
\* a poll selects nothing (at most fuel cycles are tried).
RECURSIVE CyclesToDrain(_, _, _)
CyclesToDrain(rows, batchSize, fuel) ==
    LET sel == GetPendingMessages(rows, batchSize) IN
      IF sel = << >> \/ fuel = 0 THEN 0
      ELSE 1 + CyclesToDrain(AfterCycle(rows, sel), batchSize, fuel - 1)

C23_UpdatedAtMonotonic ==
    [][\A m \in Rows : messages'[m].updated_at >= messages[m].updated_at]_vars

\* C24: a PublishPendingMessages call whose query succeeds while no row is
\* pending ends in that step with its counter at 0 (it returns 0, nil): no cycle
\* is started, nothing is published and no row, broadcast or delivery changes.
C24_EmptyPollIsNoOp ==
    [][\A p \in Publishers :
          ((\A m \in Rows : messages[m].status # StatusPending) /\ PubPoll(p, TRUE))
            => /\ ppc'[p] = "idle" /\ batch'[p] = << >> /\ published'[p] = 0
               /\ messages' = messages /\ broadcasts' = broadcasts
               /\ queue' = queue /\ inbox' = inbox /\ pubCount' = pubCount]_vars

\* C24 happens: the publisher is between cycles and the store holds rows, none
\* of them pending, one of them still queued with its delivery in the broker.
C24_Witness ==
    /\ ppc[Publisher1] = "idle"
    /\ Rows # {}
    /\ \A m \in Rows : messages[m].status # StatusPending
    /\ \E m \in Rows :
         /\ messages[m].status = StatusQueued
         /\ \E i \in DOMAIN queue : queue[i] = m

\* C25: whatever runtime error occurs (a store error, a broker publish error, a
\* gateway error, the loss of the broker connection), no publisher process and
\* no worker process has ended.
C25_NoExitOnRuntimeError ==
    /\ \A p \in Publishers : ppc[p] # "exited"
    /\ \A w \in Workers : wpc[w] # "exited"

\* C26: once the publisher has ended after a shutdown signal, every row that is
\* queued has had a successful broker publish: the cycle the signal interrupted
\* left each of its rows queued and published, or pending.
C26_ShutdownCompletesCycle ==
    ppc[Publisher1] = "exited"
        => \A m \in Rows : messages[m].status = StatusQueued => pubCount[m] >= 1

\* C27: a delivery that a worker settles after the shutdown signal reached it is
\* acked, with its row sent and holding the provider id of its Send: it is not
\* put back into the queue.
C27_ShutdownFinishesDelivery ==
    [][\A w \in Workers :
          (wdone[w] /\ wpc[w] = "decide" /\ wpc'[w] = "idle")
            => /\ queue' = queue
               /\ messages[wmsg[w]].status = StatusSent
               /\ messages[wmsg[w]].provider_id # NoPid]_vars

\* C28: when the compensating update after a failed Publish is over, whatever it
\* returned, the row is pending again.
C28_FailedPublishBackToPending ==
    [][\A p \in Publishers :
          (ppc[p] = "compensate" /\ ppc'[p] # "compensate")
            => messages'[Head(batch[p])].status = StatusPending]_vars

\* C29: a step of a publisher does not change the status of a row that is sent,
\* delivered or failed.
C29_PublisherKeepsLaterStatus ==
    [][\A m \in Rows :
          (pubVars' # pubVars /\ messages[m].status \in {StatusSent} \cup TerminalStatuses)
            => messages'[m].status = messages[m].status]_vars

\* C30: the worker's sent update of a row to which a receipt for the provider id
\* of its Send has already been applied leaves the row in the receipt's status.
C30_SentUpdateKeepsReceipt ==
    [][\A w \in Workers :
          (/\ wpc[w] = "marksent" /\ wpc'[w] = "decide"
           /\ messages[wmsg[w]].provider_id = wres[w]
           /\ messages[wmsg[w]].status \in TerminalStatuses)
            => messages'[wmsg[w]].status = messages[wmsg[w]].status]_vars

\* C31: a delivery that Consume acks after its Send succeeded has its row in
\* status sent, holding the provider id that Send returned: the id was stored and
\* the row marked sent before the ack.
C31_AckedRowIsSentWithId ==
    [][\A w \in Workers :
          (wpc[w] = "decide" /\ wpc'[w] = "idle" /\ wres[w] # NoPid /\ ~werr[w])
            => /\ messages[wmsg[w]].status = StatusSent
               /\ messages[wmsg[w]].provider_id = wres[w]]_vars

\* C32: every Message row whose status is sent holds a provider id, also when
\* single store calls of SendMessage fail.
C32_SentRowHasProviderId ==
    \A m \in Rows : messages[m].status = StatusSent => messages[m].provider_id # NoPid

\* Message m has a delivery in the broker: ready in the queue, on a consumer's
\* channel, or held unacked by a handler.
HasDelivery(m) ==
    \/ \E i \in DOMAIN queue : queue[i] = m
    \/ \E w \in Workers : wmsg[w] = m \/ \E i \in DOMAIN inbox[w] : inbox[w][i] = m

\* C33: with one publisher that may be killed at any point of a cycle: (1) the
\* step that publishes a row finds it queued, written by the queued update of
\* the same cycle, and does not write it; (2) a message with a delivery in the
\* broker is never pending; (3) a kill between the queued update and the Publish
\* leaves the row queued with no delivery.
C33_QueuedBeforePublish ==
    /\ [][/\ \A m \in Rows :
                (~HasDelivery(m) /\ HasDelivery(m)')
                  => /\ ppc[Publisher1] = "publish" /\ Head(batch[Publisher1]) = m
                     /\ messages[m].status = StatusQueued
                     /\ messages' = messages
          /\ (ppc[Publisher1] = "publish" /\ PubCrash(Publisher1))
                => \A m \in Rows :
                     m = Head(batch[Publisher1])
                       => /\ messages'[m].status = StatusQueued
                          /\ ~HasDelivery(m)'
                          /\ pubCount'[m] = 0]_vars
    /\ [](\A m \in Rows : HasDelivery(m) => messages[m].status # StatusPending)

\* C33 happens: the publisher was killed between the queued update and the
\* Publish of a row, which is queued with no delivery and no publish, while the
\* row of another message it did publish has been sent.
C33_Witness ==
    /\ ppc[Publisher1] = "idle"
    /\ faults >= 1
    /\ \E m \in Rows :
         /\ messages[m].status = StatusQueued
         /\ ~HasDelivery(m)
         /\ pubCount[m] = 0
    /\ \E m \in Rows : messages[m].status = StatusSent /\ pubCount[m] = 1

\* C34: a PublishPendingMessages call whose query succeeded returns no error
\* whatever happens to its rows, counts exactly the rows whose queued update and
\* Publish both succeeded, and handles every selected row by its own outcome,
\* also the rows after one that failed: published and queued; untouched (queued
\* update failed); pending again (Publish failed); queued without a publish
\* (Publish and compensating update failed).
C34_RowErrorDoesNotAbortCycle ==
    [][(workerVars' = workerVars /\ intakeVars' = intakeVars) =>
        \A b \in BatchSizes, outs \in CycleOutcomes :
          PubCycle(Publisher1, b, TRUE, outs)
            => LET msgs == GetPendingMessages(messages, b) IN
                 /\ pubRet'[Publisher1].err = FALSE
                 /\ pubRet'[Publisher1].n = Cardinality({i \in DOMAIN msgs : outs[i] = "ok"})
                 /\ \A i \in DOMAIN msgs :
                      LET id == msgs[i] IN
                        /\ outs[i] = "ok"
                             => /\ messages'[id].status = StatusQueued
                                /\ pubCount'[id] = Bump(pubCount[id])
                                /\ \E k \in DOMAIN queue' : k > Len(queue) /\ queue'[k] = id
                        /\ outs[i] # "ok"
                             => /\ pubCount'[id] = pubCount[id]
                                /\ \A k \in DOMAIN queue' : k > Len(queue) => queue'[k] # id
                        /\ outs[i] = "updateErr" => messages'[id] = messages[id]
                        /\ outs[i] = "publishErr" => messages'[id].status = StatusPending
                        /\ outs[i] = "compensateErr" => messages'[id].status = StatusQueued]_vars

\* C34 happens: the latest cycle returned 1 and no error after the Publish and
\* the compensating update of the first row of a broadcast failed (the row is
\* queued without a publish) and the second row of the same cycle was published.
C34_Witness ==
    /\ pubRet[Publisher1] = [n |-> 1, err |-> FALSE]
    /\ faults = ErrorsIn(<<"compensateErr">>)
    /\ \E m1, m2 \in Rows :
         /\ m1 < m2
         /\ messages[m1].broadcast_id = messages[m2].broadcast_id
         /\ messages[m1].status = StatusQueued /\ pubCount[m1] = 0
         /\ pubCount[m2] = 1

\* C35: one PublishPendingMessages call with batch size b: the query returns at
\* most b rows, all of them pending; the call writes only rows that were pending,
\* at most b of them; every status change it makes is pending to queued, on at
\* most b rows; and the count it returns is the number of rows that it turned
\* from pending to queued and published, which is the number of deliveries it
\* added to the queue. A call whose query failed returns 0 and changes nothing.
C35_CycleBoundedByBatchSize ==
    [][(workerVars' = workerVars /\ intakeVars' = intakeVars) =>
        \A b \in BatchSizes, queryOk \in BOOLEAN, outs \in CycleOutcomes :
          PubCycle(Publisher1, b, queryOk, outs)
            => LET sel == GetPendingMessages(messages, b)
                   written == {m \in Rows : messages'[m] # messages[m]
                                              \/ pubCount'[m] # pubCount[m]}
                   toQueued == {m \in Rows : /\ messages[m].status = StatusPending
                                             /\ messages'[m].status = StatusQueued}
                   both == {m \in toQueued : pubCount'[m] = Bump(pubCount[m])
                                               /\ pubCount'[m] # pubCount[m]}
               IN  /\ Len(sel) <= b
                   /\ \A i \in DOMAIN sel : messages[sel[i]].status = StatusPending
                   /\ \A i, j \in DOMAIN sel : i # j => sel[i] # sel[j]
                   /\ Cardinality(written) <= b
                   /\ \A m \in written : messages[m].status = StatusPending
                   /\ \A m \in Rows : messages'[m].status # messages[m].status => m \in toQueued
                   /\ Cardinality(toQueued) <= b
                   /\ pubRet'[Publisher1].n = Cardinality(both)
                   /\ pubRet'[Publisher1].n = Len(queue') - Len(queue)
                   /\ ~queryOk => (pubRet'[Publisher1].n = 0 /\ messages' = messages)]_vars

\* C35 happens: a cycle with the small batch size, on a store with more pending
\* rows than that, returned the batch size: that many rows of the broadcast are
\* queued and published, the next one is still pending, and nothing failed.
C35_Witness ==
    /\ pubRet[Publisher1] = [n |-> SmallBatch, err |-> FALSE]
    /\ faults = 0
    /\ \E b \in BIds :
         /\ Cardinality({m \in RowsOf(b) : messages[m].status = StatusQueued
                                             /\ pubCount[m] = 1}) = SmallBatch
         /\ \E m \in RowsOf(b) : messages[m].status = StatusPending
    /\ \A m \in Rows : messages[m].status \in {StatusPending, StatusQueued}
    /\ Len(queue) = SmallBatch

\* Row a comes before row b in the order (created_at, id).
CreatedBefore(rows, a, b) ==
    \/ rows[a].created_at < rows[b].created_at
    \/ rows[a].created_at = rows[b].created_at /\ a < b

\* C36: the rows a poll cycle publishes are the first pending rows in the order
\* (created_at, id), published in that order: each published row comes before
\* the next published one, and before every pending row the cycle left out.
C36_HandoffInCreationOrder ==
    [][(workerVars' = workerVars /\ Len(queue') > Len(queue)) =>
         LET new == SubSeq(queue', Len(queue) + 1, Len(queue')) IN
           /\ \A i, j \in DOMAIN new : i < j => CreatedBefore(messages, new[i], new[j])
           /\ \A m \in PendingRows(messages) :
                (\A i \in DOMAIN new : new[i] # m)
                  => \A i \in DOMAIN new : CreatedBefore(messages, new[i], m)]_vars

\* C37: a receipt carrying exactly the provider_id string stored on a row is
\* answered with success and sets that row to the receipt's status: the string
\* the handler looks up after uuid.Parse and String() is the string stored.
C37_StoredIdIsReconciled ==
    [][\A m \in Rows, st \in TerminalStatuses :
          (messages[m].provider_id # NoPid /\ GatewayDLR(m, st))
            => /\ dlrResp' = StatusNoContent
               /\ messages'[m].status = st]_vars

\* C38: no Message row is pending while a delivery for the message is in the
\* broker (ready, or unacked with a consumer), whatever the interleaving of the
\* publishers' queued updates, publishes and compensating updates.
C38_NoPendingWithDelivery ==
    \A m \in Rows : messages[m].status = StatusPending => ~HasDelivery(m)

\* C39: when SaveMessages returns, either it returned an error and the store
\* holds the rows it held before (no row of the batch), or it returned success
\* and the store holds, after those, one pending row for each message of the
\* batch; whichever INSERT statement or commit failed, also for batches of
\* several chunks.
C39_SaveMessagesAllOrNothing ==
    [][(ipc = "saved" /\ ipc' = "idle") =>
         \/ /\ createResp' = StatusInternalServerError
            /\ messages' = messages
         \/ /\ createResp' = StatusCreated
            /\ Len(messages') = Len(messages) + ireq.n
            /\ \A m \in DOMAIN messages' :
                 IF m \in Rows THEN messages'[m] = messages[m]
                 ELSE /\ messages'[m].broadcast_id = ireq.bid
                      /\ messages'[m].status = StatusPending]_vars

\* C39 happens: SaveMessages of a batch of more than one chunk failed and left
\* no row of its broadcast, and a later batch of more than one chunk was saved
\* whole.
C39_Witness ==
    /\ createResp = StatusCreated
    /\ ipc = "idle"
    /\ faults >= 1
    /\ \E b1, b2 \in broadcasts :
         /\ b1 < b2
         /\ requested[b1] > InsertChunk /\ RowsOf(b1) = {}
         /\ requested[b2] > InsertChunk /\ Cardinality(RowsOf(b2)) = requested[b2]

\* The requests of ip that allow admitted at a reading in [from, from + Window).
AdmittedIn(ip, from) ==
    {i \in DOMAIN rlLog : /\ rlLog[i].ip = ip
                          /\ rlLog[i].ok
                          /\ rlLog[i].at >= from
                          /\ rlLog[i].at < from + Window}

\* C40: the rate limiter admits at most Rate requests of one client IP in any
\* interval of length Window, whatever the arrivals and however allow calls and
\* the cleanup task interleave, and a visitor's token count stays within 0..Rate.
C40_AtMostRatePerWindow ==
    /\ \A ip \in IPs : \A from \in 0..MaxRateClock :
           Cardinality(AdmittedIn(ip, from)) <= Rate
    /\ \A i \in DOMAIN visitorObj : visitorObj[i].tokens \in 0..Rate

====
